---- MODULE Spec2Model ----
(***************************************************************************)
(* A model of the SMWU sales data API (app/routers/sales.py,               *)
(* app/database.py, app/routers/trends.py).                                *)
(*                                                                         *)
(* Python values are represented as follows.                               *)
(*   - a dict is a function whose domain is the set of its keys;           *)
(*   - a raw field value (an amount, a code, a name) is a string, and the  *)
(*     Python value None stored in a field is the string None;             *)
(*   - an Optional[dict] is a sequence of length at most one: NoneRec is   *)
(*     Python's None and Some(d) is the dict d, so that the empty dict {}  *)
(*     and None stay different values;                                     *)
(*   - the Korean display strings of the source are romanised, since the   *)
(*     module is ASCII.                                                    *)
(***************************************************************************)
EXTENDS Naturals, Sequences, FiniteSets, TLC

(***************************************************************************)
(* Bounds of the model.                                                    *)
(***************************************************************************)
\* How many catalog categories the ETL may have populated for the stored
\* (location, period): the first NumPopulated - 1 categories and the last one.
NumPopulated == 3

(***************************************************************************)
(* Python values.                                                          *)
(***************************************************************************)
None == "None"
NoneRec == << >>
Some(d) == << d >>
EmptyDict == [k \in {} |-> k]

\* dict.get(key, default)
Get(d, key, default) == IF key \in DOMAIN d THEN d[key] ELSE default

\* truth value of an Optional[dict]: None and {} are false
Truthy(r) == r # NoneRec /\ DOMAIN r[1] # {}

(***************************************************************************)
(* State of a sales request, and of the process.                           *)
(***************************************************************************)
VARIABLES
    store,          \* the document store: composed key -> raw record
    instance,       \* CouchbaseClient._instance: "None", "connected", or
                    \* "unconnected" (an instance without a collection)
    pc,             \* position of the sales handler
    district_code,  \* the request's path parameter
    quarter,        \* the request's quarter, after defaulting
    idx,            \* position of the fan-out loop in the catalog
    attempted,      \* the category codes get_by_key was called with, in order
    returned,       \* the category codes whose lookup returned a document, in order
    found,          \* the category codes whose record was accumulated, in order
    results,        \* the raw records accumulated by the fan-out
    response        \* the response of the request

salesVars ==
    << store, instance, pc, district_code, quarter, idx, attempted, returned, found,
       results, response >>

(***************************************************************************)
(* State of a trend request.                                               *)
(***************************************************************************)
VARIABLES
    t_pc,           \* position of the trend handler
    endpoint,       \* the endpoint of the request
    keywords,       \* request.keywords
    option,         \* resolution or property_type
    clients,        \* TrendReq clients constructed during the request
    payloads,       \* build_payload calls of the request
    queries,        \* provider queries issued during the request
    retry_count,    \* retry_count of the retry loop
    related,        \* related_topics / related_queries: None or the last answer
    attempts,       \* what each provider query met: "raised", "nodata", "data"
    sleeps,         \* the time.sleep calls of the request, in seconds
    t_response      \* the response of the request

trendVars ==
    << t_pc, endpoint, keywords, option, clients, payloads, queries, retry_count,
       related, attempts, sleeps, t_response >>

(***************************************************************************)
(* State of the two function-level specifications.                         *)
(***************************************************************************)
VARIABLES
    triples,        \* two (district_code, quarter, industry_code) triples
    keys            \* their composed keys, once composed

keyVars == << triples, keys >>

VARIABLES
    r_raw,          \* the raw record handed to format_industry_data
    r_code,         \* the industry code handed to it
    r_out           \* None, or the formatted entry

reshapeVars == << r_raw, r_code, r_out >>

(***************************************************************************)
(* State of a direct use of the gateway.                                   *)
(***************************************************************************)
VARIABLES
    g_call,         \* the last gateway call: its name, its key and whether
                    \* the store failed to answer it
    g_result        \* how the call ended: raised or not, and the value returned

gatewayVars == << g_call, g_result >>

(***************************************************************************)
(* State of the keyword-insight router.                                    *)
(***************************************************************************)
VARIABLES
    SERPAPI_API_KEY,    \* the key read from the environment at import
    k_request,          \* the body of the last analyze request
    searches,           \* parameters of the provider calls of that request
    k_response          \* the answer to that request

insightVars == << SERPAPI_API_KEY, k_request, searches, k_response >>

(***************************************************************************)
(* State of the event loop of the server process.                          *)
(***************************************************************************)
VARIABLES
    kind,           \* request -> the handler it is for, None before it arrives
    arrived,        \* requests accepted by the server and not yet started
    loop_owner,     \* the request whose handler holds the loop thread, or 0
    phase,          \* where that handler is
    loop_retry_count,   \* retry_count of that handler
    served          \* requests answered

loopVars == << kind, arrived, loop_owner, phase, loop_retry_count, served >>

auxVars == << gatewayVars, insightVars, loopVars >>

vars == << salesVars, trendVars, keyVars, reshapeVars, auxVars >>

nonSalesVars == << trendVars, keyVars, reshapeVars, auxVars >>
nonTrendVars == << salesVars, keyVars, reshapeVars, auxVars >>

(***************************************************************************)
(* sales.py: the category catalog.                                         *)
(***************************************************************************)
\* FOOD_INDUSTRY_CODES.keys(), in insertion order
FOOD_INDUSTRY_CODES ==
    << "CS100001", "CS100002", "CS100003", "CS100004", "CS100005", "CS100006",
       "CS100007", "CS100008", "CS100009", "CS100010", "CS200001" >>

CatalogCodes == { FOOD_INDUSTRY_CODES[i] : i \in 1..Len(FOOD_INDUSTRY_CODES) }

\* FOOD_INDUSTRY_CODES[industry_code]
IndustryName ==
    ( "CS100001" :> "hansik-eumsikjeom" @@ "CS100002" :> "jungsik-eumsikjeom" @@
      "CS100003" :> "ilsik-eumsikjeom"  @@ "CS100004" :> "yangsik-eumsikjeom" @@
      "CS100005" :> "jegwajeom"         @@ "CS100006" :> "fastfood-jeom" @@
      "CS100007" :> "chicken-jeonmunjeom" @@ "CS100008" :> "bunsik-jeonmunjeom" @@
      "CS100009" :> "hof-ganijujeom"    @@ "CS100010" :> "coffee-eumryo" @@
      "CS200001" :> "pyeonuijeom" )

\* the quarter substituted when the request carries none
DefaultQuarter == "20242"

(***************************************************************************)
(* sales.py: format_industry_data.                                         *)
(***************************************************************************)
DailyFields ==
    ( "woryoil" :> "mon_selng_amt" @@ "hwayoil" :> "tues_selng_amt" @@
      "suyoil" :> "wed_selng_amt"  @@ "mogyoil" :> "thur_selng_amt" @@
      "geumyoil" :> "fri_selng_amt" @@ "toyoil" :> "sat_selng_amt" @@
      "iryoil" :> "sun_selng_amt" )

TimeFields ==
    ( "simya" :> "tmzon_00_06_selng_amt" @@ "achim" :> "tmzon_06_11_selng_amt" @@
      "jeomsim" :> "tmzon_11_14_selng_amt" @@ "ohu" :> "tmzon_14_17_selng_amt" @@
      "jeonyeok" :> "tmzon_17_21_selng_amt" @@ "yagan" :> "tmzon_21_24_selng_amt" )

GenderFields == ( "male" :> "ml_selng_amt" @@ "female" :> "fml_selng_amt" )

AgeFields ==
    ( "10dae" :> "agrde_10_selng_amt" @@ "20dae" :> "agrde_20_selng_amt" @@
      "30dae" :> "agrde_30_selng_amt" @@ "40dae" :> "agrde_40_selng_amt" @@
      "50dae" :> "agrde_50_selng_amt" @@ "60dae-isang" :> "agrde_60_above_selng_amt" )

WeekFields == ( "weekday" :> "mdwk_selng_co" @@ "weekend" :> "wkend_selng_co" )

\* one group of leaves: raw_data.get(field, 0) for every leaf of the group
Leaves(raw_data, fields) ==
    [ leaf \in DOMAIN fields |-> Get(raw_data, fields[leaf], "0") ]

format_industry_data(raw_data, industry_code) ==
    [ industry_name  |-> IndustryName[industry_code],
      sales_analysis |->
        [ daily_sales      |-> [ data |-> Leaves(raw_data, DailyFields) ],
          time_based_sales |-> [ data |-> Leaves(raw_data, TimeFields) ],
          demographics     |-> [ gender |-> Leaves(raw_data, GenderFields),
                                 age    |-> Leaves(raw_data, AgeFields) ],
          weekday_weekend  |-> Leaves(raw_data, WeekFields) ] ]

\* the raw field names read by format_industry_data
LeafFieldNames ==
    { DailyFields[k] : k \in DOMAIN DailyFields } \cup
    { TimeFields[k] : k \in DOMAIN TimeFields } \cup
    { GenderFields[k] : k \in DOMAIN GenderFields } \cup
    { AgeFields[k] : k \in DOMAIN AgeFields } \cup
    { WeekFields[k] : k \in DOMAIN WeekFields }

(***************************************************************************)
(* database.py: the key scheme and the gateway.                            *)
(***************************************************************************)
\* doc_id = f"sales::{district_code}::{quarter}::{industry_code}"
doc_id(district, period, industry_code) ==
    "sales::" \o district \o "::" \o period \o "::" \o industry_code

\* CouchbaseClient.get_by_key on the instance inst.  An instance whose
\* connection was never established has no collection attribute: the
\* AttributeError is caught like every other exception.  transportOk is
\* whether collection.get answers; a missing key makes it raise.
get_by_key(inst, transportOk, st, district, period, industry_code) ==
    LET key == doc_id(district, period, industry_code) IN
    IF inst = "connected" /\ transportOk /\ key \in DOMAIN st
    THEN Some(st[key])
    ELSE NoneRec

(***************************************************************************)
(* The document store as the external ETL left it.                         *)
(***************************************************************************)
\* the one (location, period) the ETL has populated
StoredLocation == "11110"
StoredPeriod == "20242"

PopulatedCats ==
    { FOOD_INDUSTRY_CODES[i] : i \in 1..(NumPopulated - 1) } \cup
    { FOOD_INDUSTRY_CODES[Len(FOOD_INDUSTRY_CODES)] }

OtherCode(cat) ==
    IF cat = FOOD_INDUSTRY_CODES[1] THEN FOOD_INDUSTRY_CODES[2]
    ELSE FOOD_INDUSTRY_CODES[1]

\* the leaves of the sample record of the specification's scenario
SampleLeaves ==
    ( "mon_selng_amt" :> "100" @@ "ml_selng_amt" :> "40" @@ "fml_selng_amt" :> "60" )

\* The documents that may be stored under the key of cat: the embedded
\* category code is the key's, another catalog code, no catalog code or
\* missing; the display name is present or missing; or the document is {}.
RawRecords(cat) ==
    { codePart @@ namePart @@ SampleLeaves :
        codePart \in { EmptyDict, "svc_induty_cd" :> cat,
                       "svc_induty_cd" :> OtherCode(cat),
                       "svc_induty_cd" :> "ZZ999999" },
        namePart \in { EmptyDict, "adstrd_cd_nm" :> ("dong-" \o cat) } }
    \cup { EmptyDict }

StoreChoices ==
    { f \in [ PopulatedCats ->
                {NoneRec} \cup UNION { { Some(r) : r \in RawRecords(c) } : c \in PopulatedCats } ] :
        \A c \in PopulatedCats : f[c] = NoneRec \/ f[c][1] \in RawRecords(c) }

StoreOf(f) ==
    LET present == { c \in PopulatedCats : f[c] # NoneRec }
        doc_ids == { doc_id(StoredLocation, StoredPeriod, c) : c \in present }
        catOf(k) == CHOOSE c \in present : doc_id(StoredLocation, StoredPeriod, c) = k
    IN  [ k \in doc_ids |-> f[catOf(k)][1] ]

\* request inputs
Locations == { "11110", "11140" }
QuarterInputs == { None, "20242", "20241" }


NoResponse == [ status_code |-> 0 ]

(***************************************************************************)
(* sales.py: get_district_sales.                                           *)
(***************************************************************************)
\* lines 164-171: classify the records by their embedded category code
RECURSIVE industry_data_from(_, _, _)
industry_data_from(rs, i, acc) ==
    IF i > Len(rs) THEN acc
    ELSE LET industry_code == Get(rs[i], "svc_induty_cd", None) IN
         industry_data_from(rs, i + 1,
            IF industry_code \in CatalogCodes
            THEN (industry_code :> format_industry_data(rs[i], industry_code)) @@ acc
            ELSE acc)

\* a variant of industry_data that files a record without a catalog code
\* under the first catalog code
industry_data_default_code(rs) ==
    LET code(i) == IF Get(rs[i], "svc_induty_cd", None) \in CatalogCodes
                   THEN Get(rs[i], "svc_induty_cd", None)
                   ELSE FOOD_INDUSTRY_CODES[1]
    IN  [ c \in { code(i) : i \in 1..Len(rs) } |->
            format_industry_data(rs[CHOOSE i \in 1..Len(rs) : code(i) = c], c) ]

\* a variant of industry_data that starts at the second record
industry_data_skip_first(rs) == industry_data_from(rs, 2, EmptyDict)

industry_data(rs) == industry_data_from(rs, 1, EmptyDict)

\* a variant of SuccessResponse that names the district after the last record
SuccessResponse_last_name(rs, q) ==
    [ status_code |-> 200,
      status      |-> "success",
      data |-> [ district_name |-> IF rs # << >> THEN Get(rs[Len(rs)], "adstrd_cd_nm", None)
                                   ELSE None,
                 quarter       |-> q,
                 industries    |-> industry_data(rs) ] ]

\* lines 173-183
SuccessResponse(rs, q) ==
    [ status_code |-> 200,
      status      |-> "success",
      data |-> [ district_name |-> IF rs # << >> THEN Get(rs[1], "adstrd_cd_nm", None)
                                   ELSE None,
                 quarter       |-> q,
                 industries    |-> industry_data(rs) ] ]

HTTPException(code) == [ status_code |-> code ]

\* a variant of Respond without the test for an empty accumulation
Respond_without_404(rs, q) == SuccessResponse(rs, q)

\* lines 161-183
Respond(rs, q) ==
    IF rs = << >> THEN HTTPException(404) ELSE SuccessResponse(rs, q)

\* lines 135-143: default the quarter and construct the client.  __new__
\* stores the new instance in _instance before it connects, so a failed
\* connection leaves an instance without a collection behind; the
\* ConnectionError reaches the handler's except Exception (500).
get_district_sales_begin(d, q) ==
    /\ pc = "idle"
    /\ district_code' = d
    /\ quarter' = IF q = None \/ q = "" THEN DefaultQuarter ELSE q
    /\ \/ /\ instance = "None"
          /\ instance' = "connected"
          /\ pc' = "fanout"
          /\ response' = NoResponse
       \/ /\ instance = "None"
          /\ instance' = "unconnected"
          /\ pc' = "done"
          /\ response' = HTTPException(500)
       \/ /\ instance # "None"
          /\ instance' = instance
          /\ pc' = "fanout"
          /\ response' = NoResponse
    /\ idx' = 1
    /\ attempted' = << >>
    /\ returned' = << >>
    /\ found' = << >>
    /\ results' = << >>
    /\ UNCHANGED store
    /\ UNCHANGED nonSalesVars

\* a variant of the fan-out that leaves the loop at the first category
\* without a record
get_district_sales_lookup_break ==
    /\ pc = "fanout"
    /\ idx <= Len(FOOD_INDUSTRY_CODES)
    /\ \E transportOk \in BOOLEAN :
         LET industry_code == FOOD_INDUSTRY_CODES[idx]
             result == get_by_key(instance, transportOk, store,
                                  district_code, quarter, industry_code)
         IN  /\ attempted' = Append(attempted, industry_code)
             /\ returned' = IF result # NoneRec THEN Append(returned, industry_code)
                          ELSE returned
             /\ found' = IF Truthy(result) THEN Append(found, industry_code) ELSE found
             /\ results' = IF Truthy(result) THEN Append(results, result[1]) ELSE results
             /\ idx' = IF Truthy(result) THEN idx + 1 ELSE Len(FOOD_INDUSTRY_CODES) + 1
    /\ UNCHANGED << store, instance, pc, district_code, quarter, response >>
    /\ UNCHANGED nonSalesVars

\* lines 147-159: one iteration of the fan-out
get_district_sales_lookup ==
    /\ pc = "fanout"
    /\ idx <= Len(FOOD_INDUSTRY_CODES)
    /\ \E transportOk \in BOOLEAN :
         LET industry_code == FOOD_INDUSTRY_CODES[idx]
             result == get_by_key(instance, transportOk, store,
                                  district_code, quarter, industry_code)
         IN  /\ attempted' = Append(attempted, industry_code)
             /\ returned' = IF result # NoneRec THEN Append(returned, industry_code)
                          ELSE returned
             /\ found' = IF Truthy(result) THEN Append(found, industry_code) ELSE found
             /\ results' = IF Truthy(result) THEN Append(results, result[1]) ELSE results
    /\ idx' = idx + 1
    /\ UNCHANGED << store, instance, pc, district_code, quarter, response >>
    /\ UNCHANGED nonSalesVars

\* lines 161-183: 404 when nothing was found, the aggregated view otherwise
get_district_sales_respond ==
    /\ pc = "fanout"
    /\ idx > Len(FOOD_INDUSTRY_CODES)
    /\ response' = Respond(results, quarter)
    /\ pc' = "done"
    /\ UNCHANGED << store, instance, district_code, quarter, idx, attempted, returned,
                    found, results >>
    /\ UNCHANGED nonSalesVars

\* the response is serialised and the request's state is discarded
get_district_sales_return ==
    /\ pc = "done"
    /\ pc' = "idle"
    /\ district_code' = None
    /\ quarter' = None
    /\ idx' = 1
    /\ attempted' = << >>
    /\ returned' = << >>
    /\ found' = << >>
    /\ results' = << >>
    /\ response' = NoResponse
    /\ UNCHANGED << store, instance >>
    /\ UNCHANGED nonSalesVars

InitSales ==
    /\ store \in { StoreOf(f) : f \in StoreChoices }
    /\ instance = "None"
    /\ pc = "idle"
    /\ district_code = None
    /\ quarter = None
    /\ idx = 1
    /\ attempted = << >>
    /\ returned = << >>
    /\ found = << >>
    /\ results = << >>
    /\ response = NoResponse

\* a request arrives: GET /api/sales/district/{district_code}?quarter=
sales_request ==
    /\ pc = "idle"
    /\ \E d \in Locations, q \in QuarterInputs : get_district_sales_begin(d, q)

(***************************************************************************)
(* trends.py: inputs and the external provider.                            *)
(***************************************************************************)
\* the largest keyword list of a request
MaxKeywordLen == 6

\* the limit of the keyword-count validation
MaxKeywords == 5

max_retries == 3

KeywordNames == { "a", "b" }

RECURSIVE SeqsUpTo(_, _)
SeqsUpTo(S, n) ==
    IF n = 0 THEN { << >> }
    ELSE LET shorter == SeqsUpTo(S, n - 1) IN
         shorter \cup { Append(q, x) : q \in { r \in shorter : Len(r) = n - 1 }, x \in S }

KeywordLists == SeqsUpTo(KeywordNames, MaxKeywordLen)

Range(q) == { q[i] : i \in 1..Len(q) }

TimelineEndpoints == { "timeline", "regions", "interest-by-property" }
RelatedEndpoints == { "related-topics", "related-queries" }

valid_resolutions == { "COUNTRY", "REGION", "CITY", "DMA" }
valid_properties == { "", "images", "news", "youtube", "froogle" }

\* the endpoint-specific query parameter: resolution or property_type
OptionInputs(ep) ==
    IF ep = "regions" THEN valid_resolutions \cup { "STATE" }
    ELSE IF ep = "interest-by-property" THEN valid_properties \cup { "web" }
    ELSE { "" }

InvalidOption(ep, opt) ==
    \/ ep = "regions" /\ opt \notin valid_resolutions
    \/ ep = "interest-by-property" /\ opt \notin valid_properties

\* A DataFrame: the kind of its index, the index and the columns.
EmptyFrame == [ index_type |-> "datetime", index |-> << >>, columns |-> EmptyDict ]

TimelineFrame ==
    [ index_type |-> "datetime",
      index      |-> << [ date |-> "2024-01-07", time |-> "00:00:00" ] >>,
      columns    |-> ( "a" :> << "50" >> @@ "isPartial" :> << "False" >> ) ]

RegionFrame ==
    [ index_type |-> "plain",
      index      |-> << "Seoul" >>,
      columns    |-> ( "a" :> << "100" >> ) ]

\* what one run of a timeline-style handler meets at the provider
TimelineOutcomes == { "client_error", "payload_error", "query_error", "empty", "frame" }

\* The value the provider holds for one keyword in a related_topics() or
\* related_queries() answer: None, a dict of two frames, a dict whose
\* rising frame is None and whose top frame is empty, or a value that is
\* no dict at all.
Row == [ query |-> "q", value |-> "100" ]
FullData == ( "rising" :> Some(<< Row >>) @@ "top" :> Some(<< Row >>) )
EmptyData == ( "rising" :> NoneRec @@ "top" :> Some(<< >>) )
Malformed == ( "malformed" :> "int" )

RelatedValues == { NoneRec, Some(FullData), Some(EmptyData), Some(Malformed) }

\* the answers of related_topics() / related_queries(): a dict over any
\* subset of the keyword names
ProviderDicts == UNION { [ S -> RelatedValues ] : S \in SUBSET KeywordNames }

(***************************************************************************)
(* trends.py: helpers.                                                     *)
(***************************************************************************)
\* d.strftime('%Y-%m-%d %H:%M:%S')
strftime(d) == d.date \o " " \o d.time

\* lines 85-121
format_trend_data(df, drop_partial) ==
    IF df.index = << >> \/ DOMAIN df.columns = {} THEN EmptyDict
    ELSE LET cols == IF drop_partial THEN DOMAIN df.columns \ { "isPartial" }
                     ELSE DOMAIN df.columns
             values == [ c \in cols |-> df.columns[c] ]
         IN  IF df.index_type = "datetime"
             THEN [ dates  |-> [ i \in 1..Len(df.index) |-> strftime(df.index[i]) ],
                    values |-> values ]
             ELSE [ regions |-> df.index, values |-> values ]

Placeholder == [ rising |-> << >>, top |-> << >> ]

\* lines 145-154: one of the two lists of a keyword
RelatedList(data, which) ==
    IF which \in DOMAIN data /\ data[which] # NoneRec /\ data[which][1] # << >>
    THEN data[which][1]
    ELSE << >>

\* lines 123-160
process_related_data(data_dict) ==
    IF DOMAIN data_dict = {} THEN EmptyDict
    ELSE IF \E k \in DOMAIN data_dict :
                data_dict[k] # NoneRec /\ "malformed" \in DOMAIN data_dict[k][1]
         THEN [ k \in DOMAIN data_dict |-> Placeholder ]
         ELSE [ k \in DOMAIN data_dict |->
                  IF data_dict[k] = NoneRec THEN Placeholder
                  ELSE [ rising |-> RelatedList(data_dict[k][1], "rising"),
                         top    |-> RelatedList(data_dict[k][1], "top") ] ]

\* a variant of the keyword-count validation that lets one more keyword pass
TooManyKeywords_one_more(kws) == Len(kws) > MaxKeywords + 1

\* lines 174, 233, 300, 371, 479
TooManyKeywords(kws) == Len(kws) > MaxKeywords

\* a variant of the loop's test that accepts any non-empty answer
SuccessCriterion_any_answer(answer, kws) == DOMAIN answer # {}

\* lines 327, 398: the test that ends the retry loop
SuccessCriterion(answer, kws) ==
    /\ DOMAIN answer # {}
    /\ \E i \in 1..Len(kws) : Get(answer, kws[i], NoneRec) # NoneRec

TrendHTTPException(code) == [ http |-> code, status |-> None, data |-> EmptyDict ]

Envelope(status, data) == [ http |-> 200, status |-> status, data |-> data ]

\* lines 212-217, 283-288, 527-532: except Exception of the timeline-style
\* handlers, which also catches the HTTPException raised by the validation
timeline_except(exc) == TrendHTTPException(500)

\* lines 353-359, 424-430: except Exception of the related handlers
related_except(exc, kws) ==
    Envelope("partial", [ k \in Range(kws) |-> Placeholder ])

NoTrendResponse == [ http |-> 0, status |-> None, data |-> EmptyDict ]


\* whether an answer holds non-null data for a requested keyword
HasDataFor(answer, kws) ==
    \E k \in Range(kws) : k \in DOMAIN answer /\ answer[k] # NoneRec

InitTrends ==
    /\ t_pc = "idle"
    /\ endpoint = None
    /\ keywords = << >>
    /\ option = ""
    /\ clients = 0
    /\ payloads = 0
    /\ queries = 0
    /\ retry_count = 0
    /\ related = NoneRec
    /\ attempts = << >>
    /\ sleeps = << >>
    /\ t_response = NoTrendResponse

\* get_interest_over_time, get_interest_by_region, get_interest_by_property:
\* the whole handler (lines 172-217, 231-288, 477-532)
timeline_handler(ep, kws, opt) ==
    /\ t_pc = "idle"
    /\ ep \in TimelineEndpoints
    /\ endpoint' = ep
    /\ keywords' = kws
    /\ option' = opt
    /\ \/ /\ TooManyKeywords(kws) \/ InvalidOption(ep, opt)
          /\ clients' = 0 /\ payloads' = 0 /\ queries' = 0
          /\ t_response' = timeline_except(TrendHTTPException(400))
       \/ /\ ~ TooManyKeywords(kws) /\ ~ InvalidOption(ep, opt)
          /\ \E outcome \in TimelineOutcomes :
               /\ clients' = 1
               /\ payloads' = IF outcome = "client_error" THEN 0 ELSE 1
               /\ queries' = IF outcome \in { "client_error", "payload_error" } THEN 0 ELSE 1
               /\ t_response' =
                    IF outcome \in { "client_error", "payload_error", "query_error" }
                    THEN timeline_except(outcome)
                    ELSE IF outcome = "empty" THEN Envelope("success", EmptyDict)
                    ELSE IF ep = "regions"
                         THEN Envelope("success", format_trend_data(RegionFrame, FALSE))
                         ELSE Envelope("success", format_trend_data(TimelineFrame, TRUE))
    /\ t_pc' = "done"
    /\ UNCHANGED << retry_count, related, attempts, sleeps >>
    /\ UNCHANGED nonTrendVars

\* get_related_topics, get_related_queries, lines 298-321 / 369-392:
\* validation, client, payload and the initialisation of the retry loop
related_begin(ep, kws) ==
    /\ t_pc = "idle"
    /\ ep \in RelatedEndpoints
    /\ endpoint' = ep
    /\ keywords' = kws
    /\ option' = ""
    /\ \/ /\ TooManyKeywords(kws)
          /\ clients' = 0 /\ payloads' = 0
          /\ t_response' = related_except(TrendHTTPException(400), kws)
          /\ t_pc' = "done"
       \/ /\ ~ TooManyKeywords(kws)
          /\ \E outcome \in { "client_error", "payload_error" } :
               /\ clients' = 1
               /\ payloads' = IF outcome = "client_error" THEN 0 ELSE 1
               /\ t_response' = related_except(outcome, kws)
          /\ t_pc' = "done"
       \/ /\ ~ TooManyKeywords(kws)
          /\ clients' = 1 /\ payloads' = 1
          /\ t_response' = NoTrendResponse
          /\ t_pc' = "retry"
    /\ queries' = 0
    /\ retry_count' = 0
    /\ related' = NoneRec
    /\ attempts' = << >>
    /\ sleeps' = << >>
    /\ UNCHANGED nonTrendVars

\* lines 323-338 / 394-409: one iteration of the retry loop
related_attempt ==
    /\ t_pc = "retry"
    /\ retry_count < max_retries
    /\ queries' = queries + 1
    /\ \/ \E answer \in ProviderDicts :
            /\ related' = Some(answer)
            /\ attempts' = Append(attempts,
                                  IF HasDataFor(answer, keywords) THEN "data" ELSE "nodata")
            /\ IF SuccessCriterion(answer, keywords)
               THEN /\ retry_count' = retry_count
                    /\ sleeps' = sleeps
                    /\ t_pc' = "process"
               ELSE /\ retry_count' = retry_count + 1
                    /\ sleeps' = Append(sleeps, 1)
                    /\ t_pc' = IF retry_count + 1 < max_retries THEN "retry" ELSE "process"
       \/ /\ related' = related
          /\ attempts' = Append(attempts, "raised")
          /\ retry_count' = retry_count + 1
          /\ sleeps' = Append(sleeps, 2)
          /\ t_pc' = IF retry_count + 1 < max_retries THEN "retry" ELSE "process"
    /\ UNCHANGED << endpoint, keywords, option, clients, payloads, t_response >>
    /\ UNCHANGED nonTrendVars

\* lines 340-351 / 411-422
related_respond ==
    /\ t_pc = "process"
    /\ LET data_dict == IF related = NoneRec \/ DOMAIN related[1] = {}
                        THEN [ k \in Range(keywords) |-> NoneRec ]
                        ELSE related[1]
       IN  t_response' = Envelope("success", process_related_data(data_dict))
    /\ t_pc' = "done"
    /\ UNCHANGED << endpoint, keywords, option, clients, payloads, queries, retry_count,
                    related, attempts, sleeps >>
    /\ UNCHANGED nonTrendVars

\* the response is serialised and the request's state is discarded
trend_return ==
    /\ t_pc = "done"
    /\ t_pc' = "idle"
    /\ endpoint' = None
    /\ keywords' = << >>
    /\ option' = ""
    /\ clients' = 0
    /\ payloads' = 0
    /\ queries' = 0
    /\ retry_count' = 0
    /\ related' = NoneRec
    /\ attempts' = << >>
    /\ sleeps' = << >>
    /\ t_response' = NoTrendResponse
    /\ UNCHANGED nonTrendVars

\* a request arrives at /timeline, /regions or /interest-by-property
timeline_request ==
    /\ t_pc = "idle"
    /\ \E ep \in TimelineEndpoints, kws \in KeywordLists :
         \E opt \in OptionInputs(ep) : timeline_handler(ep, kws, opt)

\* a request arrives at /related-topics or /related-queries
related_request ==
    /\ t_pc = "idle"
    /\ \E ep \in RelatedEndpoints, kws \in KeywordLists : related_begin(ep, kws)

(***************************************************************************)
(* The key scheme as a function of its three components.                   *)
(***************************************************************************)
\* the longest location or period string
MaxStrLen == 2

\* locations and periods are not validated: any characters may occur
KeyAlphabet == { ":", "1" }

RECURSIVE StringsOfLen(_)
StringsOfLen(n) ==
    IF n = 0 THEN { "" }
    ELSE { w \o c : w \in StringsOfLen(n - 1), c \in KeyAlphabet }

KeyStrings == UNION { StringsOfLen(n) : n \in 1..MaxStrLen }

KeyTriples == KeyStrings \X KeyStrings \X PopulatedCats


IdleKey ==
    /\ triples = << >>
    /\ keys = << >>

InitKey ==
    /\ triples \in KeyTriples \X KeyTriples
    /\ keys = << >>

\* database.py line 77, for both triples
compose_keys ==
    /\ keys = << >>
    /\ keys' = << doc_id(triples[1][1], triples[1][2], triples[1][3]),
                  doc_id(triples[2][1], triples[2][2], triples[2][3]) >>
    /\ UNCHANGED triples
    /\ UNCHANGED << salesVars, trendVars, reshapeVars, auxVars >>

(***************************************************************************)
(* Reshaping as a function of the raw record.                              *)
(***************************************************************************)
\* how many leaf fields a raw record holds at most
MaxPresent == 2

RECURSIVE FieldSetsUpTo(_)
FieldSetsUpTo(n) ==
    IF n = 0 THEN { {} }
    ELSE LET smaller == FieldSetsUpTo(n - 1) IN
         smaller \cup { S \cup { x } : S \in smaller, x \in LeafFieldNames }

\* raw records: some leaf fields missing, some holding null, some an amount
RawInputs == UNION { [ S -> { None, "100" } ] : S \in FieldSetsUpTo(MaxPresent) }


IdleReshape ==
    /\ r_raw = EmptyDict
    /\ r_code = None
    /\ r_out = NoneRec

InitReshape ==
    /\ r_raw \in RawInputs
    /\ r_code \in PopulatedCats
    /\ r_out = NoneRec

\* sales.py lines 169-171: one call of format_industry_data
reshape ==
    /\ r_out = NoneRec
    /\ r_out' = Some(format_industry_data(r_raw, r_code))
    /\ UNCHANGED << r_raw, r_code >>
    /\ UNCHANGED << salesVars, trendVars, keyVars, auxVars >>

(***************************************************************************)
(* database.py: the gateway used directly.                                 *)
(***************************************************************************)
\* how a call ends: with a raised exception, or with a returned value
Raised(exc) == [ raised |-> TRUE, value |-> exc ]
Returned(v) == [ raised |-> FALSE, value |-> v ]

\* self.collection.upsert(key, data): an instance without a collection gives
\* an AttributeError, a store that does not answer a CouchbaseException
collection_upsert(inst, transportOk) ==
    IF inst # "connected" THEN Raised("AttributeError")
    ELSE IF ~ transportOk THEN Raised("CouchbaseException")
    ELSE Returned(None)

\* a variant of upsert_document without the except clause
upsert_document_propagates(inst, transportOk) == collection_upsert(inst, transportOk)

\* lines 83-102
upsert_document(inst, transportOk) ==
    IF collection_upsert(inst, transportOk).raised THEN Returned(FALSE)
    ELSE Returned(TRUE)

\* Cluster(...).query(statement) and the iteration over its rows
cluster_query(transportOk, rows) ==
    IF ~ transportOk THEN Raised("CouchbaseException") ELSE Returned(rows)

\* lines 104-127
query(transportOk, rows) ==
    IF cluster_query(transportOk, rows).raised THEN Returned(<< >>)
    ELSE Returned(cluster_query(transportOk, rows).value)

\* the keys and the documents of the direct calls
GatewayKeys == { doc_id(StoredLocation, StoredPeriod, c) : c \in PopulatedCats }
GatewayDocs ==
    { ("svc_induty_cd" :> FOOD_INDUSTRY_CODES[1]) @@ SampleLeaves, SampleLeaves }
QueryRows == { << >> } \cup { << d >> : d \in GatewayDocs }

NoCall == [ op |-> None, key |-> None, failed |-> FALSE ]

IdleGateway ==
    /\ g_call = NoCall
    /\ g_result = Returned(None)

(***************************************************************************)
(* routers/keyword_insights.py                                             *)
(***************************************************************************)
\* truth value of an Optional[str]: None and "" are false
TruthyStr(x) == x # None /\ x # ""

\* os.getenv("SERPAPI_API_KEY"): unset, set to the empty string, or set
ApiKeyValues == { None, "", "key" }

InsightKeywords == { "cafe", "bakery" }
InsightLocations == { None, "Busan" }

OrganicResults == << "r1", "r2", "r3", "r4", "r5", "r6" >>

\* the dicts GoogleSearch(params).get_dict() returns, when it does not raise
SearchDicts ==
    { EmptyDict,
      [ search_metadata |-> [ created_at |-> "t1" ],
        search_information |-> [ total_results |-> 42 ],
        organic_results |-> OrganicResults,
        related_searches |-> << "s1" >> ],
      [ search_metadata |-> EmptyDict,
        organic_results |-> SubSeq(OrganicResults, 1, 2) ] }

\* a variant of get_api_key that hands the key out unchecked
get_api_key_unchecked(api_key) == Returned(api_key)

\* lines 32-47
get_api_key(api_key) ==
    IF ~ TruthyStr(api_key) THEN Raised(500) ELSE Returned(api_key)

\* lines 68-77: the parameters handed to the provider
search_params(keyword, api_key, location) ==
    [ engine |-> "google", google_domain |-> "google.co.kr", q |-> keyword,
      api_key |-> api_key, location |-> location, hl |-> "ko", gl |-> "kr",
      num |-> 5 ]

\* seq[:n]
Prefix(q, n) == SubSeq(q, 1, IF Len(q) < n THEN Len(q) ELSE n)

\* lines 109-119
response_data(keyword, search_data) ==
    [ keyword |-> keyword,
      timestamp |-> Get(Get(search_data, "search_metadata", EmptyDict),
                        "created_at", ""),
      total_results |-> Get(Get(search_data, "search_information", EmptyDict),
                            "total_results", 0),
      search_results |-> Prefix(Get(search_data, "organic_results", << >>), 5),
      related_searches |-> Get(search_data, "related_searches", << >>) ]

InsightHTTPException(code) == [ http |-> code, status |-> None, data |-> EmptyDict ]

NoInsightResponse == [ http |-> 0, status |-> None, data |-> EmptyDict ]

NoInsightRequest == [ keyword |-> None, location |-> None ]

IdleInsight ==
    /\ SERPAPI_API_KEY = "key"
    /\ k_request = NoInsightRequest
    /\ searches = << >>
    /\ k_response = NoInsightResponse

\* the module is imported with whatever the environment holds
InitInsight ==
    /\ SERPAPI_API_KEY \in ApiKeyValues
    /\ k_request = NoInsightRequest
    /\ searches = << >>
    /\ k_response = NoInsightResponse

\* POST /api/v1/keyword-insights/analyze: lines 89-131, with the dependency
\* get_api_key resolved before the body runs
analyze_keyword ==
    /\ \E keyword \in InsightKeywords, loc \in InsightLocations,
          raises \in BOOLEAN, search_data \in SearchDicts :
         /\ k_request' = [ keyword |-> keyword, location |-> loc ]
         /\ IF get_api_key(SERPAPI_API_KEY).raised
            THEN /\ searches' = << >>
                 /\ k_response' =
                       InsightHTTPException(get_api_key(SERPAPI_API_KEY).value)
            ELSE /\ searches' =
                       << search_params(keyword,
                                        get_api_key(SERPAPI_API_KEY).value,
                                        IF TruthyStr(loc) THEN loc ELSE "Seoul") >>
                 /\ k_response' =
                       IF raises
                       THEN InsightHTTPException(500)
                       ELSE [ http |-> 200, status |-> "success",
                              data |-> response_data(keyword, search_data) ]
    /\ UNCHANGED << SERPAPI_API_KEY, gatewayVars, loopVars >>
    /\ UNCHANGED << salesVars, trendVars, keyVars, reshapeVars >>

(***************************************************************************)
(* main.py and the handlers of the routers, as the event loop runs them.   *)
(* uvicorn.run("main:app", ...) starts one server process with one event   *)
(* loop.  Every handler of the routers is an "async def" coroutine, which  *)
(* the framework runs on the loop thread, and none of them awaits: the     *)
(* provider and store calls and time.sleep are ordinary blocking calls, so *)
(* a handler keeps the loop thread from its first line to its return.      *)
(***************************************************************************)
\* the number of requests that reach the server
NumRequests == 3

Requests == 1..NumRequests

HandlerKinds == { "sales", "keyword-insight", "timeline", "related" }

NoOwner == 0

IdleLoop ==
    /\ kind = [ r \in Requests |-> None ]
    /\ arrived = {}
    /\ loop_owner = NoOwner
    /\ phase = "idle"
    /\ loop_retry_count = 0
    /\ served = {}

\* a request reaches the server; it waits for the loop to run its handler
request_arrives ==
    /\ \E r \in Requests, h \in HandlerKinds :
         /\ kind[r] = None
         /\ kind' = [ kind EXCEPT ![r] = h ]
         /\ arrived' = arrived \cup { r }
    /\ UNCHANGED << loop_owner, phase, loop_retry_count, served >>
    /\ UNCHANGED << gatewayVars, insightVars >>
    /\ UNCHANGED << salesVars, trendVars, keyVars, reshapeVars >>

\* the loop thread, free, picks an arrived request and enters its handler
handler_starts(r) ==
    /\ loop_owner = NoOwner
    /\ r \in arrived
    /\ arrived' = arrived \ { r }
    /\ loop_owner' = r
    /\ phase' = IF kind[r] = "related" THEN "attempt" ELSE "run"
    /\ loop_retry_count' = 0
    /\ UNCHANGED << kind, served >>
    /\ UNCHANGED << gatewayVars, insightVars >>
    /\ UNCHANGED << salesVars, trendVars, keyVars, reshapeVars >>

\* trends.py lines 323-338, 394-409 up to the sleep: one provider call of
\* the retry loop, on the loop thread
handler_attempts ==
    /\ phase = "attempt"
    /\ \E outcome \in { "data", "empty", "raised" } :
         IF outcome = "data"
         THEN /\ phase' = "process"
              /\ loop_retry_count' = loop_retry_count
         ELSE /\ phase' = "sleeping"
              /\ loop_retry_count' = loop_retry_count + 1
    /\ UNCHANGED << kind, arrived, loop_owner, served >>
    /\ UNCHANGED << gatewayVars, insightVars >>
    /\ UNCHANGED << salesVars, trendVars, keyVars, reshapeVars >>

\* time.sleep(1), time.sleep(2) return: the loop condition is tested again
handler_wakes ==
    /\ phase = "sleeping"
    /\ phase' = IF loop_retry_count < max_retries THEN "attempt" ELSE "process"
    /\ UNCHANGED << kind, arrived, loop_owner, loop_retry_count, served >>
    /\ UNCHANGED << gatewayVars, insightVars >>
    /\ UNCHANGED << salesVars, trendVars, keyVars, reshapeVars >>

\* the handler returns or raises its HTTPException: the loop thread is free
handler_returns ==
    /\ phase \in { "run", "process" }
    /\ served' = served \cup { loop_owner }
    /\ loop_owner' = NoOwner
    /\ phase' = "idle"
    /\ loop_retry_count' = 0
    /\ UNCHANGED << kind, arrived >>
    /\ UNCHANGED << gatewayVars, insightVars >>
    /\ UNCHANGED << salesVars, trendVars, keyVars, reshapeVars >>

handler_start == \E r \in Requests : handler_starts(r)

IdleAux == IdleGateway /\ IdleInsight /\ IdleLoop

\* CouchbaseClient(): lines 33-57.  The ConnectionError of a failed first
\* connection leaves the caller; _instance is assigned before.
gateway_construct ==
    /\ \/ /\ instance = "None"
          /\ instance' = "connected"
          /\ g_result' = Returned(None)
          /\ g_call' = [ op |-> "construct", key |-> None, failed |-> FALSE ]
       \/ /\ instance = "None"
          /\ instance' = "unconnected"
          /\ g_result' = Raised("ConnectionError")
          /\ g_call' = [ op |-> "construct", key |-> None, failed |-> TRUE ]
       \/ /\ instance # "None"
          /\ instance' = instance
          /\ g_result' = Returned(None)
          /\ g_call' = [ op |-> "construct", key |-> None, failed |-> FALSE ]
    /\ UNCHANGED << store, pc, district_code, quarter, idx, attempted, returned, found,
                    results, response >>
    /\ UNCHANGED << insightVars, loopVars >>
    /\ UNCHANGED << trendVars, keyVars, reshapeVars >>

\* db_client.get_by_key(...) on the instance CouchbaseClient() hands out
gateway_get_by_key ==
    /\ instance # "None"
    /\ \E c \in PopulatedCats, transportOk \in BOOLEAN :
         /\ g_call' = [ op |-> "get_by_key",
                        key |-> doc_id(StoredLocation, StoredPeriod, c),
                        failed |-> ~ (instance = "connected" /\ transportOk) ]
         /\ g_result' = Returned(get_by_key(instance, transportOk, store,
                                            StoredLocation, StoredPeriod, c))
    /\ UNCHANGED << insightVars, loopVars >>
    /\ UNCHANGED << salesVars, trendVars, keyVars, reshapeVars >>

\* db_client.upsert_document(key, data)
gateway_upsert_document ==
    /\ instance # "None"
    /\ \E key \in GatewayKeys, data \in GatewayDocs, transportOk \in BOOLEAN :
         /\ g_call' = [ op |-> "upsert_document", key |-> key,
                        failed |-> ~ (instance = "connected" /\ transportOk) ]
         /\ g_result' = upsert_document(instance, transportOk)
         /\ store' = IF instance = "connected" /\ transportOk
                     THEN (key :> data) @@ store
                     ELSE store
    /\ UNCHANGED << instance, pc, district_code, quarter, idx, attempted, returned, found,
                    results, response >>
    /\ UNCHANGED << insightVars, loopVars >>
    /\ UNCHANGED << trendVars, keyVars, reshapeVars >>

\* db_client.query(statement): the rows are what the statement selects
gateway_query ==
    /\ instance # "None"
    /\ \E rows \in QueryRows, transportOk \in BOOLEAN :
         /\ g_call' = [ op |-> "query", key |-> rows, failed |-> ~ transportOk ]
         /\ g_result' = query(transportOk, rows)
    /\ UNCHANGED << insightVars, loopVars >>
    /\ UNCHANGED << salesVars, trendVars, keyVars, reshapeVars >>

(***************************************************************************)
(* Specifications.                                                         *)
(***************************************************************************)

\* no sales request is made and the store is empty
IdleSales ==
    /\ store = EmptyDict
    /\ instance = "None"
    /\ pc = "idle"
    /\ district_code = None
    /\ quarter = None
    /\ idx = 1
    /\ attempted = << >>
    /\ returned = << >>
    /\ found = << >>
    /\ results = << >>
    /\ response = NoResponse

\* the sales endpoint
Init == InitSales /\ InitTrends /\ IdleKey /\ IdleReshape /\ IdleAux
Next ==
    \/ sales_request
    \/ get_district_sales_lookup
    \/ get_district_sales_respond
    \/ get_district_sales_return
Spec == Init /\ [][Next]_vars

\* the trend endpoints
InitTrendsOnly == IdleSales /\ InitTrends /\ IdleKey /\ IdleReshape /\ IdleAux
NextTrends ==
    \/ timeline_request
    \/ related_request
    \/ related_attempt
    \/ related_respond
    \/ trend_return
SpecTrends == InitTrendsOnly /\ [][NextTrends]_vars

\* the retry loop runs on once a related request has entered it
FairSpecTrends ==
    SpecTrends /\ WF_vars(related_attempt) /\ WF_vars(related_respond)

\* key composition
InitKeyOnly == IdleSales /\ InitTrends /\ InitKey /\ IdleReshape /\ IdleAux
NextKey == compose_keys
SpecKey == InitKeyOnly /\ [][NextKey]_vars

\* reshaping
InitReshapeOnly == IdleSales /\ InitTrends /\ IdleKey /\ InitReshape /\ IdleAux
NextReshape == reshape
SpecReshape == InitReshapeOnly /\ [][NextReshape]_vars

\* the gateway used directly, from process start with an empty store
InitGateway == IdleSales /\ InitTrends /\ IdleKey /\ IdleReshape /\ IdleAux
NextGateway ==
    \/ gateway_construct
    \/ gateway_get_by_key
    \/ gateway_upsert_document
    \/ gateway_query
SpecGateway == InitGateway /\ [][NextGateway]_vars

\* the two insight routers of one process, with any value of the key; the
\* handlers of the trend router that answer in one step stand for it, all
\* of its handlers obtaining their client from get_pytrends_client
InitInsights ==
    /\ IdleSales /\ InitTrends /\ IdleKey /\ IdleReshape
    /\ IdleGateway /\ InitInsight /\ IdleLoop
NextInsights ==
    \/ analyze_keyword
    \/ timeline_request
    \/ trend_return
SpecInsights == InitInsights /\ [][NextInsights]_vars

\* concurrent requests to the one server process
InitLoop == IdleSales /\ InitTrends /\ IdleKey /\ IdleReshape /\ IdleAux
NextLoop ==
    \/ request_arrives
    \/ handler_start
    \/ handler_attempts
    \/ handler_wakes
    \/ handler_returns
SpecLoop == InitLoop /\ [][NextLoop]_vars

(***************************************************************************)
(* Properties of the sales endpoint (Spec).                                *)
(***************************************************************************)
\* the catalog categories with a stored record for (d, q)
StoredCats(d, q) == { c \in CatalogCodes : doc_id(d, q, c) \in DOMAIN store }

\* the embedded category codes of the accumulated records
EmbeddedCodes == { Get(results[i], "svc_induty_cd", None) : i \in 1..Len(results) }

\* C1, as claimed: when every stored record of the requested (location,
\* period) was returned by its lookup, and there is at least one, the request
\* succeeds and the keys of industries are exactly the stored categories,
\* whatever the records embed as svc_induty_cd.
C1_KeysAreStoredCategories ==
    ( /\ pc = "done"
      /\ StoredCats(district_code, quarter) # {}
      /\ Range(found) = StoredCats(district_code, quarter) )
    => /\ response.status_code = 200
       /\ DOMAIN response.data.industries = StoredCats(district_code, quarter)

\* C1, amended: whenever at least one lookup returned a non-empty record the
\* request succeeds, and the keys of industries are exactly the embedded
\* svc_induty_cd values of the returned records that are catalog codes; they
\* are the categories whose lookup returned a record when every returned
\* record embeds the category of its own key.
C1_KeysAreEmbeddedCatalogCodes ==
    ( pc = "done" /\ results # << >> )
    => /\ response.status_code = 200
       /\ DOMAIN response.data.industries = EmbeddedCodes \cap CatalogCodes
       /\ Range(found) \subseteq StoredCats(district_code, quarter)
       /\ ( \A i \in 1..Len(results) :
               Get(results[i], "svc_induty_cd", None) = found[i] )
          => DOMAIN response.data.industries = Range(found)

\* C1, the case: two records were returned, one of them embedding a code that
\* is not the category of its key, and the request was answered.
C1_Witness ==
    /\ pc = "done"
    /\ Len(results) = 2
    /\ response.status_code = 200
    /\ Get(results[1], "svc_induty_cd", None) = found[1]
    /\ Get(results[2], "svc_induty_cd", None) # found[2]
    /\ DOMAIN response.data.industries # {}

InCatalogOrder(q) ==
    \A i, j \in 1..Len(q) :
        i < j => \E a, b \in 1..Len(FOOD_INDUSTRY_CODES) :
                    a < b /\ FOOD_INDUSTRY_CODES[a] = q[i] /\ FOOD_INDUSTRY_CODES[b] = q[j]

\* C10: during the fan-out get_by_key has been called exactly once for each
\* catalog category before the loop position, in catalog order; the request is
\* decided only after it was called for every category, whatever the earlier
\* lookups returned; and the records are accumulated in catalog order.
C10_EveryCategoryAttemptedInOrder ==
    /\ pc = "fanout" => attempted = SubSeq(FOOD_INDUSTRY_CODES, 1, idx - 1)
    /\ ( pc = "done" /\ response.status_code \in { 200, 404 } )
          => attempted = FOOD_INDUSTRY_CODES
    /\ pc \in { "fanout", "done" }
          => /\ Len(found) = Len(results)
             /\ InCatalogOrder(found)
             /\ \A i \in 1..Len(found) :
                   results[i] = store[doc_id(district_code, quarter, found[i])]

\* C10, the case: the first category's lookup returned nothing, later ones
\* returned records, and the request was decided.
C10_Witness ==
    /\ pc = "done"
    /\ response.status_code = 200
    /\ found = << FOOD_INDUSTRY_CODES[2], FOOD_INDUSTRY_CODES[Len(FOOD_INDUSTRY_CODES)] >>

\* C17 as stated: in a successful response district_name is the
\* adstrd_cd_nm of the document of the earliest catalog category whose
\* lookup returned a document, None when that document has no such field.
C17_NameOfFirstReturned ==
    ( pc = "done" /\ response.status_code = 200 ) =>
        /\ returned # << >>
        /\ response.data.district_name =
              Get(store[doc_id(district_code, quarter, returned[1])],
                  "adstrd_cd_nm", None)

\* C17: in a successful response district_name is the adstrd_cd_nm of the
\* first accumulated record, None when it has no such field, whether or not
\* that record has an entry in industries.  The accumulated records are the
\* non-empty documents the lookups returned, in catalog order, so the first
\* one is that of the earliest catalog category whose lookup returned a
\* non-empty document.
C17_NameOfFirstAccumulated ==
    ( pc = "done" /\ response.status_code = 200 ) =>
        /\ found # << >>
        /\ InCatalogOrder(found)
        /\ Range(found) =
              { c \in Range(returned) :
                    store[doc_id(district_code, quarter, c)] # EmptyDict }
        /\ response.data.district_name =
              Get(store[doc_id(district_code, quarter, found[1])],
                  "adstrd_cd_nm", None)

\* C17, the case: the earliest lookup returned an empty document, the first
\* accumulated record carries a name and no catalog code, so that it has no
\* entry in industries, and a later record has one.
C17_Witness ==
    /\ pc = "done"
    /\ response.status_code = 200
    /\ Len(found) >= 2
    /\ returned[1] # found[1]
    /\ response.data.district_name = "dong-" \o found[1]
    /\ found[1] \notin DOMAIN response.data.industries
    /\ Get(results[1], "svc_induty_cd", None) \notin CatalogCodes
    /\ DOMAIN response.data.industries # {}

\* C18 as stated: every success response has a non-empty industries mapping
\* whose keys are all catalog codes.
C18_SuccessHasIndustries ==
    ( pc = "done" /\ response.status_code = 200 ) =>
        /\ DOMAIN response.data.industries # {}
        /\ DOMAIN response.data.industries \subseteq CatalogCodes

\* C18: the request is answered with success exactly when some record was
\* accumulated; the keys of industries are then all catalog codes, and there
\* is an entry exactly when some accumulated record embeds a catalog code:
\* when every accumulated record's code is missing or no catalog code, the
\* answer is a success with no industry entry.
C18_IndustriesOnlyForCatalogCodes ==
    pc = "done" =>
        /\ ( response.status_code = 200 ) <=> ( instance = "connected" /\ results # << >> )
        /\ response.status_code = 200 =>
              /\ DOMAIN response.data.industries \subseteq CatalogCodes
              /\ ( DOMAIN response.data.industries # {} ) <=>
                    ( \E i \in 1..Len(results) :
                          Get(results[i], "svc_induty_cd", None) \in CatalogCodes )

\* C18, the case: two records were accumulated, one without a category code
\* and one with a code outside the catalog, and the request was answered
\* with success and no industry entry.
C18_Witness ==
    /\ pc = "done"
    /\ response.status_code = 200
    /\ Len(results) = 2
    /\ "svc_induty_cd" \notin DOMAIN results[1]
    /\ Get(results[2], "svc_induty_cd", None) = "ZZ999999"
    /\ response.data.industries = EmptyDict

(***************************************************************************)
(* Properties of reshaping (SpecReshape).                                  *)
(***************************************************************************)
\* the leaves of a formatted entry, each with the raw field it is read from
LeafPairs(entry) ==
    LET sa == entry.sales_analysis IN
    { << DailyFields[k], sa.daily_sales.data[k] >> : k \in DOMAIN DailyFields } \cup
    { << TimeFields[k], sa.time_based_sales.data[k] >> : k \in DOMAIN TimeFields } \cup
    { << GenderFields[k], sa.demographics.gender[k] >> : k \in DOMAIN GenderFields } \cup
    { << AgeFields[k], sa.demographics.age[k] >> : k \in DOMAIN AgeFields } \cup
    { << WeekFields[k], sa.weekday_weekend[k] >> : k \in DOMAIN WeekFields }

\* C2: a formatted entry has all 23 leaves, none of them null: a leaf whose
\* raw field is missing or holds null is 0.
C2_EveryLeafZeroFilled ==
    r_out # NoneRec
    => /\ Cardinality({ p[1] : p \in LeafPairs(r_out[1]) }) = 23
       /\ \A p \in LeafPairs(r_out[1]) :
             /\ p[2] # None
             /\ ( p[1] \notin DOMAIN r_raw \/ r_raw[p[1]] = None ) => p[2] = "0"

(***************************************************************************)
(* Properties of the key scheme (SpecKey).                                 *)
(***************************************************************************)
\* C4: two different (location, period, category) triples have different
\* composed keys.
C4_KeyCompositionInjective ==
    ( keys # << >> /\ triples[1] # triples[2] ) => keys[1] # keys[2]

(***************************************************************************)
(* Properties of the trend endpoints (SpecTrends, FairSpecTrends).         *)
(***************************************************************************)
\* C5: throughout a request with more than 5 keywords no provider client is
\* constructed, no payload is built and no provider query is issued, and the
\* request is not answered with a success envelope.
C5_TooManyKeywordsNoProviderCall ==
    Len(keywords) > 5
    => /\ clients = 0 /\ payloads = 0 /\ queries = 0
       /\ t_pc # "done" => t_response = NoTrendResponse
       /\ t_pc = "done" => t_response.status # "success"

\* C5, the case: a request with 6 keywords was answered.
C5_Witness ==
    /\ t_pc = "done"
    /\ Len(keywords) = 6
    /\ endpoint = "timeline"

\* C6: a request with more than 5 keywords or an invalid enumerated option is
\* answered with HTTP 400.
C6_MalformedRequestIs400 ==
    ( /\ t_pc = "done"
      /\ Len(keywords) > 5 \/ InvalidOption(endpoint, option) )
    => t_response.http = 400

\* C7: when every provider query of a related request raised, the answer is
\* HTTP 200 with status "partial" and the placeholder for every requested
\* keyword, never status "success".
C7_FailedCallIsPartial ==
    ( /\ t_pc = "done"
      /\ endpoint \in RelatedEndpoints
      /\ attempts # << >>
      /\ \A i \in 1..Len(attempts) : attempts[i] = "raised" )
    => /\ t_response.http = 200
       /\ t_response.status = "partial"
       /\ t_response.data = [ k \in Range(keywords) |-> Placeholder ]

\* the retry loop of a related request, at every state
C8_Inv ==
    endpoint \in RelatedEndpoints =>
    /\ queries = Len(attempts)
    /\ queries <= 3
    /\ t_pc = "process" => queries >= 1
    /\ \A i \in 1..(Len(attempts) - 1) : attempts[i] # "data"
    /\ ( attempts # << >> /\ attempts[Len(attempts)] = "data" ) => t_pc # "retry"
    /\ t_pc = "retry" => queries < 3 /\ ENABLED related_attempt
    /\ t_pc = "process" => attempts[Len(attempts)] = "data" \/ Len(attempts) = 3

\* C8: the retry loop issues at least 1 and at most 3 provider queries, stops
\* right after the first query whose answer holds non-null data for a
\* requested keyword, issues another query after every other one until 3 were
\* issued, and always terminates.
C8_RetryLoopBounded ==
    /\ []C8_Inv
    /\ (t_pc = "retry") ~> (t_pc = "process")

\* C8, the case: a query that raised, one without data, then one with data.
C8_Witness ==
    /\ t_pc = "process"
    /\ attempts = << "raised", "nodata", "data" >>

\* C9: when 3 queries were issued and none met the success criterion, the
\* request is answered HTTP 200 and its data holds the placeholder for every
\* requested keyword.
C9_PlaceholderForEveryKeyword ==
    ( /\ t_pc = "done"
      /\ endpoint \in RelatedEndpoints
      /\ Len(attempts) = 3
      /\ \A i \in 1..3 : attempts[i] # "data" )
    => /\ t_response.http = 200
       /\ \A k \in Range(keywords) :
             k \in DOMAIN t_response.data /\ t_response.data[k] = Placeholder

\* C16: when the retry loop of a related endpoint is over, there is one
\* wait between each two consecutive attempts and none after the last
\* attempt, be it successful or the 3rd: a wait of 1 second after an attempt
\* without data, of 2 seconds after an attempt that raised.
C16_WaitsOnlyBetweenAttempts ==
    ( endpoint \in RelatedEndpoints /\ t_pc = "process" /\ attempts # << >> ) =>
        /\ Len(sleeps) = Len(attempts) - 1
        /\ \A i \in 1..Len(sleeps) :
              i <= Len(attempts) =>
                 sleeps[i] = IF attempts[i] = "raised" THEN 2 ELSE 1

(***************************************************************************)
(* Properties of the gateway (SpecGateway).                                *)
(***************************************************************************)
\* C11: no call of get_by_key, upsert_document or query raises.  get_by_key
\* returns the stored record when the key exists and the store answers, and
\* None when the key is missing or the store fails; upsert_document returns
\* true when the store took the document and false when it failed; query
\* returns the selected rows, and the empty list when it failed.
C11_GatewayNeverRaises ==
    /\ g_call.op \in { "get_by_key", "upsert_document", "query" } => ~ g_result.raised
    /\ g_call.op = "get_by_key" =>
          /\ ( g_call.failed \/ g_call.key \notin DOMAIN store ) => g_result.value = NoneRec
          /\ ( ~ g_call.failed /\ g_call.key \in DOMAIN store )
                => g_result.value = Some(store[g_call.key])
    /\ g_call.op = "upsert_document" =>
          /\ g_result.value = ~ g_call.failed
          /\ ~ g_call.failed => g_call.key \in DOMAIN store
    /\ g_call.op = "query" =>
          g_result.value = IF g_call.failed THEN << >> ELSE g_call.key

\* C11, the case: an upsert_document the store failed to answer returned
\* false while the store already held documents.
C11_Witness ==
    /\ g_call.op = "upsert_document"
    /\ g_call.failed
    /\ instance = "connected"
    /\ DOMAIN store # {}
    /\ g_result = Returned(FALSE)

\* C12: a construction of the gateway that returns an instance returns one
\* whose connection was established: after a first connection that failed,
\* no later construction hands out the instance that never connected.
C12_ConstructedIsConnected ==
    ( g_call.op = "construct" /\ ~ g_result.raised ) => instance = "connected"

(***************************************************************************)
(* Properties of the insight routers (SpecInsights).                       *)
(***************************************************************************)
\* C13 as stated: with the provider key absent, every answered insight
\* request, keyword-insight analyze and trend endpoint alike, is a 500 and
\* no provider was called.
C13_NoKeyFailsEveryInsightRequest ==
    ~ TruthyStr(SERPAPI_API_KEY) =>
        /\ k_response # NoInsightResponse =>
              ( k_response.http = 500 /\ searches = << >> )
        /\ t_pc = "done" => ( t_response.http = 500 /\ queries = 0 )

\* C13: the process starts with or without the provider key; with the key
\* absent every answered keyword-insight analyze request is a 500 and no
\* search was handed to the provider, and with the key present every search
\* carries it.  The trend endpoints do not read the key.
C13_NoKeyFailsAnalyze ==
    /\ ( ~ TruthyStr(SERPAPI_API_KEY) /\ k_response # NoInsightResponse ) =>
          ( k_response.http = 500 /\ searches = << >> )
    /\ \A i \in 1..Len(searches) :
          searches[i].api_key = SERPAPI_API_KEY /\ TruthyStr(searches[i].api_key)

\* C13, the case: an analyze request answered while the key is the empty
\* string, after a trend request was answered in the same process.
C13_Witness ==
    /\ SERPAPI_API_KEY = ""
    /\ k_request.keyword \in InsightKeywords
    /\ k_response.http = 500
    /\ t_pc = "done"

(***************************************************************************)
(* Properties of the event loop (SpecLoop).                                *)
(***************************************************************************)
\* C14: while a related-topics / related-queries request is in a retry
\* wait, a request that has arrived can be started, so that it can complete
\* before the wait ends.
C14_WaitDoesNotBlockOthers ==
    ( phase = "sleeping" /\ arrived # {} ) =>
        \E r \in arrived : ENABLED handler_starts(r)

====
